---- MODULE Spec2Model ----
(***************************************************************************)
(* Model of the connector record codec of LVconnector.py: the header       *)
(* codec, the label recovery, the variant registry, the record variants,   *)
(* the text mirror and the client classification.                          *)
(*                                                                         *)
(* A byte string is a sequence of integers 0..255.  A Python value that    *)
(* may be None is a sequence of length 0 (None) or 1 (the value).  A       *)
(* 32-bit field is the pair <<high 16 bits, low 16 bits>>, so that no      *)
(* intermediate value leaves the range of the checker's integers.  An      *)
(* exception raised by an operation is the "err" field of the object the   *)
(* operation leaves behind, with the fields as they were when it was       *)
(* raised.                                                                 *)
(***************************************************************************)
EXTENDS Integers, Sequences, FiniteSets, TLC

VARIABLES
    obj,      \* the connector object under operation
    prev,     \* the object as it was before the last operation
    lastOp,   \* the last operation applied to obj
    vi,       \* the owning container: file version, verbosity, data source
    wire,     \* history: the bytes the last completed updateData produced
    trk,      \* history: the bytes obj was loaded from and what was done since
    imp,      \* the object built by importing the text export of obj
    steps,    \* number of operations applied so far
    vctp,     \* the shared type table: a sequence of raw records
    lists     \* the result of the last client classification

vars == <<obj, prev, lastOp, vi, wire, trk, imp, steps, vctp, lists>>

(***************************************************************************)
(* Bounds of the model.                                                    *)
(***************************************************************************)
MaxSteps == 3
MaxDepth == 4
MaxCalls == 1

(***************************************************************************)
(* Program constants.                                                      *)
(***************************************************************************)
HasLabel == 64
MaxLabelLen == 255
LabelWindow == 256
ReadLimit == 1048576
MaxFunctionClients == 125
MaxClusterClients == 500
MaxArrayDims == 64
MaxClusterFmt == 127

None == <<>>
Some(v) == <<v>>
IsNone(o) == Len(o) = 0
Val(o) == o[1]

Min(a, b) == IF a < b THEN a ELSE b
Max(a, b) == IF a > b THEN a ELSE b

\* A local name for a value: With(e, LAMBDA x : body) is body with x = e.
With(v, Body(_)) == Body(v)

(***************************************************************************)
(* BytesIO.read(n) at position pos, and the position it leaves.            *)
(***************************************************************************)
Read(buf, pos, n) ==
    IF pos >= Len(buf) THEN <<>> ELSE SubSeq(buf, pos + 1, Min(pos + n, Len(buf)))

Adv(buf, pos, n) == IF pos >= Len(buf) THEN pos ELSE Min(pos + n, Len(buf))

(***************************************************************************)
(* int.from_bytes(b, byteorder='big', signed=False) for up to 2 bytes, and *)
(* for up to 4 bytes as the pair <<high half, low half>>.                  *)
(***************************************************************************)
RECURSIVE FromBytes(_)
FromBytes(s) ==
    IF Len(s) = 0 THEN 0
    ELSE FromBytes(SubSeq(s, 1, Len(s) - 1)) * 256 + s[Len(s)]

FromBytes32(s) ==
    IF Len(s) <= 2 THEN <<0, FromBytes(s)>>
    ELSE <<FromBytes(SubSeq(s, 1, Len(s) - 2)), FromBytes(SubSeq(s, Len(s) - 1, Len(s)))>>

ReadInt(buf, pos, n) == FromBytes(Read(buf, pos, n))
ReadInt32(buf, pos) == FromBytes32(Read(buf, pos, 4))

(***************************************************************************)
(* int(n).to_bytes(2, byteorder='big'); the caller checks n < 65536.       *)
(***************************************************************************)
ToBytes2(n) == <<n \div 256, n % 256>>

HasLabelBit(flags) == (flags \div HasLabel) % 2 = 1
SetHasLabel(flags) == IF HasLabelBit(flags) THEN flags ELSE flags + HasLabel
ClearHasLabel(flags) == IF HasLabelBit(flags) THEN flags - HasLabel ELSE flags


(***************************************************************************)
(* CONNECTOR_MAIN_TYPE and CONNECTOR_FULL_TYPE: the values the enums hold. *)
(***************************************************************************)
MainTypeValues == {0, 1, 2, 3, 4, 5, 6, 7, 8, 15, 256, -1, -2}

FullTypeValues ==
    {0} \cup (1 .. 14) \cup (21 .. 23) \cup (25 .. 30) \cup {32, 33}
        \cup {48, 50, 51, 52, 53, 55, 63} \cup {64, 65, 79}
        \cup {80, 83, 84, 94, 95} \cup (96 .. 101) \cup {112, 128, 131}
        \cup {240, 241, 242} \cup {-1, -2}

MT_Number == 0
MT_Unit == 1
MT_Void == 256

FT_Void == 0
FT_NumUInt8 == 5
FT_NumUInt16 == 6
FT_NumUInt32 == 7
FT_String == 48
FT_Path == 50
FT_Cluster == 80
FT_MeasureData == 84
FT_FixedPoint == 95
FT_Function == 240
FT_TypeDef == 241
FT_EnumValue == -2

(***************************************************************************)
(* newConnectorObject: the exact-tag table first, then the table of the    *)
(* main types keyed by obj_type >> 4, then the generic class.              *)
(***************************************************************************)
\* ctor with the table of the main types consulted alone.
ctor_CategoryFirst(obj_type) ==
    CASE obj_type \div 16 = 0 -> "Number"
      [] obj_type \div 16 = 1 -> "Unit"
      [] obj_type \div 16 = 2 -> "Bool"
      [] obj_type \div 16 = 3 -> "Blob"
      [] obj_type \div 16 = 4 -> "Array"
      [] obj_type \div 16 = 5 -> "Cluster"
      [] obj_type \div 16 = 7 -> "Ref"
      [] obj_type \div 16 = 8 -> "NumberPtr"
      [] OTHER -> "Generic"

ctor(obj_type) ==
    CASE obj_type = FT_Void -> "Void"
      [] obj_type = FT_Function -> "Function"
      [] obj_type = FT_TypeDef -> "TypeDef"
      [] OTHER ->
            LET obj_main_type == obj_type \div 16
            IN  CASE obj_main_type = 0 -> "Number"
                  [] obj_main_type = 1 -> "Unit"
                  [] obj_main_type = 2 -> "Bool"
                  [] obj_main_type = 3 -> "Blob"
                  [] obj_main_type = 4 -> "Array"
                  [] obj_main_type = 5 -> "Cluster"
                  [] obj_main_type = 6 -> "Generic"
                  [] obj_main_type = 7 -> "Ref"
                  [] obj_main_type = 8 -> "NumberPtr"
                  [] obj_main_type = 15 -> "Generic"
                  [] OTHER -> "Generic"

(***************************************************************************)
(* The attributes each class's __init__ defines besides the common ones;   *)
(* an attribute outside this set exists only once a decoder assigned it.   *)
(***************************************************************************)
InitAttrs(cls) ==
    CASE cls \in {"Number", "Blob"} -> {"prop1"}
      [] cls = "Unit" -> {"values", "prop1"}
      [] cls = "TypeDef" -> {"flag1", "labels"}
      [] cls = "Ref" -> {"reftype"}
      [] cls = "Cluster" -> {"clusterFmt"}
      [] OTHER -> {}

ConnectorObject(cls, idx, obj_flags, obj_type) ==
    [ cls |-> cls, index |-> idx, oflags |-> obj_flags, otype |-> obj_type,
      clients |-> <<>>, label |-> None, size |-> None, raw_data |-> None,
      raw_data_updated |-> FALSE, parsed_data_updated |-> FALSE,
      attrs |-> InitAttrs(cls),
      prop1 |-> None, flag1 |-> None, labels |-> <<>>, values |-> <<>>,
      reftype |-> None, clusterFmt |-> None, dimensions |-> <<>>,
      padding1 |-> None, flags |-> 0, pattern |-> 0, tmp1 |-> 0,
      ctlflags |-> <<0, 0>>, valflags |-> 0,
      err |-> "none" ]

newConnectorObject(idx, obj_flags, obj_type) ==
    ConnectorObject(ctor(obj_type), idx, obj_flags, obj_type)

Client(idx, cli_flags) == [index |-> idx, flags |-> cli_flags, nested |-> None, tmp |-> <<>>]

(***************************************************************************)
(* readVariableSizeField of LVmisc: two bytes, or four when the top bit of *)
(* the first is set.  Result: the value and the position after it.         *)
(***************************************************************************)
readVariableSizeField(buf, pos) ==
    With(ReadInt(buf, pos, 2), LAMBDA val :
    With(Adv(buf, pos, 2), LAMBDA p2 :
        IF val >= 32768
        THEN [val |-> (val - 32768) * 65536 + ReadInt(buf, p2, 2), pos |-> Adv(buf, p2, 2)]
        ELSE [val |-> val, pos |-> p2]))

parseRSRCDataHeader(buf, pos) ==
    With(readVariableSizeField(buf, pos), LAMBDA l :
        [ obj_len |-> l.val,
          obj_flags |-> ReadInt(buf, l.pos, 1),
          obj_type |-> ReadInt(buf, Adv(buf, l.pos, 1), 1),
          pos |-> Adv(buf, Adv(buf, l.pos, 1), 1) ])

(***************************************************************************)
(* setData, getData, initWithRSRC.                                         *)
(***************************************************************************)
setData(o, data_buf) ==
    [o EXCEPT !.raw_data = Some(data_buf), !.size = Some(Len(data_buf)),
              !.raw_data_updated = TRUE]

getData(o) == IF IsNone(o.raw_data) THEN <<>> ELSE Val(o.raw_data)

initWithRSRC(o, buf, pos, obj_len) ==
    [o EXCEPT !.size = Some(obj_len), !.raw_data = Some(Read(buf, pos, obj_len)),
              !.raw_data_updated = TRUE]

(***************************************************************************)
(* The label scan shared by parseRSRCDataFinish and prepareRSRCData:       *)
(* strip the zero bytes at the end, then the first position i of the last  *)
(* 256 whose byte is the count of the bytes after it, all of them >= 32 or *)
(* CR or LF.  LabelPos is -1 when there is none.                           *)
(***************************************************************************)
\* rstrip(b'\0'): s up to its last byte that is not zero.
Rstrip0(s) ==
    SubSeq(s, 1, CHOOSE i \in 0 .. Len(s) :
                    /\ i = 0 \/ s[i] # 0
                    /\ \A k \in (i + 1) .. Len(s) : s[k] = 0)

LabelByteOk(bt) == bt \in {13, 10} \/ bt >= 32

LabelCandidates(whole_data) ==
    { i \in Max(Len(whole_data) - LabelWindow, 0) .. (Len(whole_data) - 1) :
        /\ Len(whole_data) - i = whole_data[i + 1] + 1
        /\ \A j \in (i + 2) .. Len(whole_data) : LabelByteOk(whole_data[j]) }

LabelPos(whole_data) ==
    With(LabelCandidates(whole_data), LAMBDA c :
        IF c = {} THEN -1 ELSE CHOOSE i \in c : \A k \in c : i <= k)

(***************************************************************************)
(* parseRSRCDataFinish.  The label is assigned only when the scan finds    *)
(* one, or when it finds none and the label is still None; the loop        *)
(* variable is read after the loop, which raises when the loop never ran.  *)
(***************************************************************************)
parseRSRCDataFinish(o, buf, pos) ==
    IF HasLabelBit(o.oflags)
    THEN With(Rstrip0(Read(buf, pos, ReadLimit)), LAMBDA whole_data :
         With(LabelPos(whole_data), LAMBDA i :
             IF i >= 0
             THEN [o EXCEPT !.label = Some(SubSeq(whole_data, i + 2, Len(whole_data))),
                            !.raw_data_updated = FALSE]
             ELSE IF IsNone(o.label)
             THEN [o EXCEPT !.label = Some(<<>>), !.raw_data_updated = FALSE]
             ELSE IF Len(whole_data) = 0
             THEN [o EXCEPT !.err = "UnboundLocalError"]
             ELSE [o EXCEPT !.raw_data_updated = FALSE]))
    ELSE [o EXCEPT !.raw_data_updated = FALSE]

WithHeader(o, h) == [o EXCEPT !.otype = h.obj_type, !.oflags = h.obj_flags]

(***************************************************************************)
(* parseRSRCData of the generic class, of Void and Bool, of Number, of     *)
(* NumberPtr and of Blob.                                                  *)
(***************************************************************************)
ConnectorObject_parseRSRCData(o, buf) ==
    LET h == parseRSRCDataHeader(buf, 0)
    IN  parseRSRCDataFinish(WithHeader(o, h), buf, h.pos)

ConnectorObjectVoid_parseRSRCData(o, buf) ==
    LET h == parseRSRCDataHeader(buf, 0)
    IN  parseRSRCDataFinish(WithHeader(o, h), buf, h.pos)

ConnectorObjectNumber_parseRSRCData(o, buf) ==
    LET h == parseRSRCDataHeader(buf, 0)
        o1 == [WithHeader(o, h) EXCEPT !.prop1 = Some(ReadInt(buf, h.pos, 1))]
    IN  parseRSRCDataFinish(o1, buf, Adv(buf, h.pos, 1))

ConnectorObjectNumberPtr_parseRSRCData(o, buf) ==
    LET h == parseRSRCDataHeader(buf, 0)
    IN  parseRSRCDataFinish(WithHeader(o, h), buf, h.pos)

ConnectorObjectBlob_parseRSRCData(o, buf) ==
    LET h == parseRSRCDataHeader(buf, 0)
        o1 == [WithHeader(o, h) EXCEPT !.prop1 = Some(ReadInt32(buf, h.pos))]
    IN  parseRSRCDataFinish(o1, buf, Adv(buf, h.pos, 4))


(***************************************************************************)
(* isGreaterOrEqVersion(ver, major=8) of LVmisc.                           *)
(***************************************************************************)
isGreaterOrEqVersion8(ver) == ver >= 8

(***************************************************************************)
(* A list of count 2-byte client indices read from pos on.                 *)
(***************************************************************************)
ReadClients(buf, pos, count) ==
    [i \in 1 .. count |-> Client(ReadInt(buf, Adv(buf, pos, 2 * (i - 1)), 2), 0)]

ConnectorObjectFunction_parseRSRCData(o, buf, ver) ==
    LET h == parseRSRCDataHeader(buf, 0)
        count == ReadInt(buf, h.pos, 2)
        p1 == Adv(buf, h.pos, 2)
        p2 == Adv(buf, p1, 2 * count)
        p3 == Adv(buf, p2, 2)
        p4 == Adv(buf, p3, 2)
        p5 == Adv(buf, p4, 2)
        idx(i) == ReadInt(buf, Adv(buf, p1, 2 * (i - 1)), 2)
        o1 == [WithHeader(o, h) EXCEPT !.flags = ReadInt(buf, p2, 2),
                                       !.pattern = ReadInt(buf, p3, 2),
                                       !.attrs = @ \cup {"flags", "pattern"}]
    IN  IF isGreaterOrEqVersion8(ver)
        THEN parseRSRCDataFinish(
                 [o1 EXCEPT !.padding1 = Some(ReadInt(buf, p4, 2)),
                            !.attrs = @ \cup {"padding1"},
                            !.clients = [i \in 1 .. count |->
                                Client(idx(i), ReadInt32(buf, Adv(buf, p5, 4 * (i - 1))))]],
                 buf, Adv(buf, p5, 4 * count))
        ELSE parseRSRCDataFinish(
                 [o1 EXCEPT !.clients = [i \in 1 .. count |->
                                Client(idx(i), ReadInt(buf, Adv(buf, p4, 2 * (i - 1)), 2))]],
                 buf, Adv(buf, p4, 2 * count))

(***************************************************************************)
(* TypeDef: flag word, label count, the labels, then the nested connector  *)
(* (parseRSRCNestedConnector), which gets index -1 and its own raw bytes.  *)
(***************************************************************************)
RECURSIVE ReadLabels(_, _, _)
ReadLabels(buf, pos, count) ==
    IF count = 0 THEN [items |-> <<>>, pos |-> pos]
    ELSE LET label_len == ReadInt(buf, pos, 1)
             p1 == Adv(buf, pos, 1)
             rest == ReadLabels(buf, Adv(buf, p1, label_len), count - 1)
         IN  [items |-> <<Read(buf, p1, label_len)>> \o rest.items, pos |-> rest.pos]

parseRSRCNestedConnector(buf, pos) ==
    LET h == parseRSRCDataHeader(buf, pos)
    IN  [ obj |-> initWithRSRC(newConnectorObject(-1, h.obj_flags, h.obj_type),
                               buf, pos, h.obj_len),
          pos |-> Adv(buf, pos, h.obj_len) ]

ConnectorObjectTypeDef_parseRSRCData(o, buf) ==
    LET h == parseRSRCDataHeader(buf, 0)
        p1 == Adv(buf, h.pos, 4)
        count32 == ReadInt32(buf, p1)
        ls == ReadLabels(buf, Adv(buf, p1, 4), count32[1] * 65536 + count32[2])
        cli == parseRSRCNestedConnector(buf, ls.pos)
        o1 == [WithHeader(o, h) EXCEPT
                  !.flag1 = Some(ReadInt32(buf, h.pos)),
                  !.labels = ls.items,
                  !.clients = <<[index |-> cli.obj.index, flags |-> 0,
                                 nested |-> Some(cli.obj), tmp |-> <<>>]>>]
    IN  parseRSRCDataFinish(o1, buf, cli.pos)

(***************************************************************************)
(* Array: the three branches on the dimension word assign the same two     *)
(* fields, flags >> 24 and flags & 0x00FFFFFF.                             *)
(***************************************************************************)
ConnectorObjectArray_parseRSRCData(o, buf) ==
    LET h == parseRSRCDataHeader(buf, 0)
        ndimensions == ReadInt(buf, h.pos, 2)
        p1 == Adv(buf, h.pos, 2)
        dim(i) == LET flags == ReadInt32(buf, Adv(buf, p1, 4 * (i - 1)))
                  IN  [flags |-> flags[1] \div 256,
                       fixedSize |-> <<flags[1] % 256, flags[2]>>]
        p2 == Adv(buf, p1, 4 * ndimensions)
        o1 == [WithHeader(o, h) EXCEPT
                  !.dimensions = [i \in 1 .. ndimensions |-> dim(i)],
                  !.attrs = @ \cup {"dimensions"},
                  !.clients = <<Client(ReadInt(buf, p2, 2), 0)>>]
    IN  parseRSRCDataFinish(o1, buf, Adv(buf, p2, 2))

(***************************************************************************)
(* fullType: the tag itself; a member of CONNECTOR_FULL_TYPE compares      *)
(* equal to its integer value.                                             *)
(***************************************************************************)
fullType(o) == o.otype

(***************************************************************************)
(* "0x{:X}".format(v) for a 32-bit v, as character codes.                  *)
(***************************************************************************)
HexDigit(d) == IF d < 10 THEN 48 + d ELSE 55 + d

RECURSIVE HexDigits(_)
HexDigits(n) == IF n < 16 THEN <<HexDigit(n)>> ELSE HexDigits(n \div 16) \o <<HexDigit(n % 16)>>

HexDigits4(n) ==
    <<HexDigit(n \div 4096), HexDigit((n \div 256) % 16), HexDigit((n \div 16) % 16),
      HexDigit(n % 16)>>

HexLabel(v) ==
    <<48, 120>> \o (IF v[1] = 0 THEN HexDigits(v[2]) ELSE HexDigits(v[1]) \o HexDigits4(v[2]))

(***************************************************************************)
(* Unit: the values are texts when fullType() is one of NumUInt8,          *)
(* NumUInt16, NumUInt32, else 4-byte integers shown in hexadecimal.        *)
(***************************************************************************)
RECURSIVE ReadUnitValues(_, _, _, _, _)
ReadUnitValues(buf, pos, count, i, isTextEnum) ==
    IF i >= count THEN [items |-> <<>>, pos |-> pos]
    ELSE IF isTextEnum
    THEN LET label_len == ReadInt(buf, pos, 1)
             p1 == Adv(buf, pos, 1)
             rest == ReadUnitValues(buf, Adv(buf, p1, label_len), count, i + 1, isTextEnum)
         IN  [items |-> <<[label |-> Read(buf, p1, label_len), intval |-> None,
                           size |-> label_len + 1, otype |-> FT_EnumValue,
                           index |-> i]>> \o rest.items,
              pos |-> rest.pos]
    ELSE LET label_val == ReadInt32(buf, pos)
             rest == ReadUnitValues(buf, Adv(buf, pos, 4), count, i + 1, isTextEnum)
         IN  [items |-> <<[label |-> HexLabel(label_val), intval |-> Some(label_val),
                           size |-> 4, otype |-> FT_EnumValue,
                           index |-> i]>> \o rest.items,
              pos |-> rest.pos]

ConnectorObjectUnit_parseRSRCData(o, buf) ==
    LET h == parseRSRCDataHeader(buf, 0)
        o0 == WithHeader(o, h)
        count == ReadInt(buf, h.pos, 2)
        isTextEnum == fullType(o0) \in {FT_NumUInt8, FT_NumUInt16, FT_NumUInt32}
        vs == ReadUnitValues(buf, Adv(buf, h.pos, 2), count, 0, isTextEnum)
        odd == vs.pos % 2 # 0
        p1 == IF odd THEN Adv(buf, vs.pos, 1) ELSE vs.pos
        o1 == [o0 EXCEPT !.values = vs.items,
                         !.padding1 = IF odd THEN Some(Read(buf, vs.pos, 1)) ELSE None,
                         !.attrs = @ \cup {"padding1"},
                         !.prop1 = Some(ReadInt(buf, p1, 1))]
    IN  parseRSRCDataFinish(o1, buf, Adv(buf, p1, 1))


(***************************************************************************)
(* Ref: the reference sub-kind selects the decoder of the rest.            *)
(***************************************************************************)
RT_DataLogFile == 1
RT_ControlRefnum == 8
RT_NotifierRefnum == 17
RT_Queue == 18
RT_EventRegistration == 23
RT_UserEvent == 25
RT_DataValueRef == 32
RT_FIFORefnum == 33

refType(o) == IF IsNone(o.reftype) THEN -1 ELSE Val(o.reftype)

parseRefQueue(o, buf, pos) ==
    LET count == ReadInt(buf, pos, 2)
        p1 == Adv(buf, pos, 2)
    IN  [o |-> [o EXCEPT !.clients = ReadClients(buf, p1, count)],
         pos |-> Adv(buf, p1, 2 * count)]

parseRefControl(o, buf, pos) ==
    LET count == ReadInt(buf, pos, 2)
        p1 == Adv(buf, pos, 2)
        p2 == Adv(buf, p1, 2 * count)
    IN  [o |-> [o EXCEPT !.clients = ReadClients(buf, p1, count),
                         !.ctlflags = ReadInt32(buf, p2),
                         !.attrs = @ \cup {"ctlflags"}],
         pos |-> Adv(buf, p2, 4)]

parse_0Pre0Post(o, buf, pos) ==
    LET count == ReadInt(buf, pos, 2)
        p1 == Adv(buf, pos, 2)
    IN  [o |-> [o EXCEPT !.clients = ReadClients(buf, p1, count)],
         pos |-> Adv(buf, p1, 2 * count)]

parseRefEventRegist(o, buf, pos) ==
    LET p1 == Adv(buf, pos, 2)
        count == ReadInt(buf, p1, 2)
        p2 == Adv(buf, p1, 2)
        at(i, k) == ReadInt(buf, Adv(buf, p2, 8 * (i - 1) + 2 * k), 2)
    IN  [o |-> [o EXCEPT !.tmp1 = ReadInt(buf, pos, 2),
                         !.attrs = @ \cup {"tmp1"},
                         !.clients = [i \in 1 .. count |->
                             [index |-> at(i, 3), flags |-> 0, nested |-> None,
                              tmp |-> <<at(i, 0), at(i, 1), at(i, 2)>>]]],
         pos |-> Adv(buf, p2, 8 * count)]

parseRefDataValue(o, buf, pos) ==
    LET count == ReadInt(buf, pos, 2)
        p1 == Adv(buf, pos, 2)
        p2 == Adv(buf, p1, 2 * count)
    IN  [o |-> [o EXCEPT !.clients = ReadClients(buf, p1, count),
                         !.valflags = ReadInt(buf, p2, 1),
                         !.attrs = @ \cup {"valflags"}],
         pos |-> Adv(buf, p2, 1)]

ConnectorObjectRef_parseRSRCData(o, buf) ==
    LET h == parseRSRCDataHeader(buf, 0)
        o1 == [WithHeader(o, h) EXCEPT !.reftype = Some(ReadInt(buf, h.pos, 2))]
        p1 == Adv(buf, h.pos, 2)
        rt == refType(o1)
        r == CASE rt \in {RT_DataLogFile, RT_Queue, RT_UserEvent} -> parseRefQueue(o1, buf, p1)
               [] rt = RT_ControlRefnum -> parseRefControl(o1, buf, p1)
               [] rt \in {RT_NotifierRefnum, RT_FIFORefnum} -> parse_0Pre0Post(o1, buf, p1)
               [] rt = RT_EventRegistration -> parseRefEventRegist(o1, buf, p1)
               [] rt = RT_DataValueRef -> parseRefDataValue(o1, buf, p1)
               [] OTHER -> [o |-> o1, pos |-> p1]
    IN  parseRSRCDataFinish(r.o, buf, r.pos)

ConnectorObjectCluster_parseRSRCData(o, buf) ==
    LET h == parseRSRCDataHeader(buf, 0)
        o0 == WithHeader(o, h)
    IN  IF fullType(o0) = FT_Cluster
        THEN LET count == ReadInt(buf, h.pos, 2)
                 p1 == Adv(buf, h.pos, 2)
             IN  parseRSRCDataFinish([o0 EXCEPT !.clients = ReadClients(buf, p1, count)],
                                     buf, Adv(buf, p1, 2 * count))
        ELSE IF fullType(o0) = FT_MeasureData
        THEN parseRSRCDataFinish([o0 EXCEPT !.clusterFmt = Some(ReadInt(buf, h.pos, 2))],
                                 buf, Adv(buf, h.pos, 2))
        ELSE parseRSRCDataFinish(o0, buf, h.pos)

(***************************************************************************)
(* parseRSRCData as the class of the object overrides it.                  *)
(***************************************************************************)
parseRSRCData(o, buf, ver) ==
    CASE o.cls \in {"Void", "Bool"} -> ConnectorObjectVoid_parseRSRCData(o, buf)
      [] o.cls = "Number" -> ConnectorObjectNumber_parseRSRCData(o, buf)
      [] o.cls = "NumberPtr" -> ConnectorObjectNumberPtr_parseRSRCData(o, buf)
      [] o.cls = "Blob" -> ConnectorObjectBlob_parseRSRCData(o, buf)
      [] o.cls = "Function" -> ConnectorObjectFunction_parseRSRCData(o, buf, ver)
      [] o.cls = "TypeDef" -> ConnectorObjectTypeDef_parseRSRCData(o, buf)
      [] o.cls = "Array" -> ConnectorObjectArray_parseRSRCData(o, buf)
      [] o.cls = "Unit" -> ConnectorObjectUnit_parseRSRCData(o, buf)
      [] o.cls = "Ref" -> ConnectorObjectRef_parseRSRCData(o, buf)
      [] o.cls = "Cluster" -> ConnectorObjectCluster_parseRSRCData(o, buf)
      [] OTHER -> ConnectorObject_parseRSRCData(o, buf)

parseXMLData(o) == [o EXCEPT !.parsed_data_updated = FALSE]

needParseData(o) ==
    CASE o.cls = "NumberPtr" -> TRUE
      [] o.cls = "Blob" -> IsNone(o.prop1)
      [] o.cls = "Function" -> Len(o.clients) = 0
      [] o.cls = "TypeDef" -> IsNone(o.flag1)
      [] o.cls = "Array" -> Len(o.clients) = 0
      [] o.cls = "Unit" -> IsNone(o.prop1)
      [] o.cls = "Ref" -> IsNone(o.reftype)
      [] o.cls = "Cluster" ->
            IF fullType(o) = FT_Cluster THEN Len(o.clients) = 0
            ELSE IF fullType(o) = FT_MeasureData THEN IsNone(o.clusterFmt)
            ELSE TRUE
      [] OTHER -> o.raw_data_updated \/ o.parsed_data_updated

parseData(o, env) ==
    IF needParseData(o)
    THEN IF o.raw_data_updated THEN parseRSRCData(o, getData(o), env.ver)
         ELSE IF o.parsed_data_updated THEN parseXMLData(o)
         ELSE IF env.dataSource = "rsrc" THEN parseRSRCData(o, getData(o), env.ver)
         ELSE IF env.dataSource = "xml" THEN parseXMLData(o)
         ELSE o
    ELSE o

(***************************************************************************)
(* prepareRSRCData: the body of the record.  The generic form keeps the    *)
(* raw bytes after the header and cuts the label the scan finds there.     *)
(***************************************************************************)
ConnectorObject_prepareRSRCData(o) ==
    LET data_buf == IF IsNone(o.raw_data) \/ Len(getData(o)) = 0 THEN <<>>
                    ELSE SubSeq(getData(o), 5, Len(getData(o)))
        i == LabelPos(Rstrip0(data_buf))
    IN  [buf |-> IF HasLabelBit(o.oflags) /\ i >= 0 THEN SubSeq(data_buf, 1, i) ELSE data_buf,
         err |-> "none"]

ConnectorObjectVoid_prepareRSRCData(o) == [buf |-> <<>>, err |-> "none"]

ConnectorObjectNumber_prepareRSRCData(o) ==
    IF IsNone(o.prop1) THEN [buf |-> <<>>, err |-> "TypeError"]
    ELSE IF Val(o.prop1) > 255 THEN [buf |-> <<>>, err |-> "OverflowError"]
    ELSE [buf |-> <<Val(o.prop1)>>, err |-> "none"]

prepareRSRCData(o) ==
    CASE o.cls \in {"Void", "Bool"} -> ConnectorObjectVoid_prepareRSRCData(o)
      [] o.cls = "Number" -> ConnectorObjectNumber_prepareRSRCData(o)
      [] OTHER -> ConnectorObject_prepareRSRCData(o)

(***************************************************************************)
(* prepareRSRCDataFinish: the label block, and the HasLabel bit set from   *)
(* the label.  Result: the object with flags and label adjusted, and the   *)
(* bytes of the block.                                                     *)
(***************************************************************************)
\* The block left at its odd length, as if the padding step were missing.
PadEven_Unpadded(data_buf) == data_buf

PadEven(data_buf) == IF Len(data_buf) % 2 > 0 THEN data_buf \o <<0>> ELSE data_buf

prepareRSRCDataFinish(o) ==
    IF ~IsNone(o.label)
    THEN LET lab == IF Len(Val(o.label)) > MaxLabelLen
                    THEN SubSeq(Val(o.label), 1, MaxLabelLen) ELSE Val(o.label)
         IN  [o |-> [o EXCEPT !.oflags = SetHasLabel(@), !.label = Some(lab)],
              buf |-> PadEven(<<Len(lab)>> \o lab)]
    ELSE [o |-> [o EXCEPT !.oflags = ClearHasLabel(@)], buf |-> <<>>]

HeaderBytes(o, n) == ToBytes2(n) \o <<o.oflags, o.otype>>

updateData(o) ==
    LET body == prepareRSRCData(o)
    IN  IF body.err # "none" THEN [o EXCEPT !.err = body.err]
        ELSE LET tail == prepareRSRCDataFinish(o)
                 n == Len(body.buf) + Len(tail.buf) + 4
             IN  IF n >= 65536 THEN [tail.o EXCEPT !.err = "OverflowError"]
                 ELSE setData(tail.o, HeaderBytes(tail.o, n) \o body.buf \o tail.buf)


(***************************************************************************)
(* expectedRSRCSize of Void/Bool (body 0) and of Number (body 1).          *)
(***************************************************************************)
expectedRSRCSize(o, body_len) ==
    IF IsNone(o.label) THEN 4 + body_len
    ELSE LET label_len == 1 + Len(Val(o.label))
         IN  4 + body_len + (IF label_len % 2 > 0 THEN label_len + 1 ELSE label_len)

(***************************************************************************)
(* checkSanity of each class: the verdict, and the exception it raises     *)
(* where it reads an attribute that does not exist, formats None as a      *)
(* number, or takes the length of None.                                    *)
(***************************************************************************)
Verdict(ret) == [ret |-> ret, err |-> "none"]
Raises(e) == [ret |-> FALSE, err |-> e]

ForwardRefs(o) == \E k \in 1 .. Len(o.clients) : o.clients[k].index >= o.index

ConnectorObject_checkSanity(o) == Verdict(TRUE)

ConnectorObjectVoid_checkSanity(o) ==
    IF IsNone(o.raw_data) THEN Raises("TypeError")
    ELSE Verdict(Len(Val(o.raw_data)) = expectedRSRCSize(o, 0))

ConnectorObjectNumber_checkSanity(o, verbose) ==
    IF IsNone(o.prop1) /\ verbose > 1 THEN Raises("TypeError")
    ELSE IF IsNone(o.raw_data) THEN Raises("TypeError")
    ELSE Verdict(/\ ~IsNone(o.prop1)
                 /\ Val(o.prop1) = 0
                 /\ Len(Val(o.raw_data)) = expectedRSRCSize(o, 1))

ConnectorObjectNumberPtr_checkSanity(o) ==
    IF IsNone(o.raw_data) THEN Raises("TypeError")
    ELSE Verdict(Len(Val(o.raw_data)) >= 4)

ConnectorObjectBlob_checkSanity(o, verbose) ==
    IF IsNone(o.prop1) /\ verbose > 1 THEN Raises("TypeError")
    ELSE IF IsNone(o.raw_data) THEN Raises("TypeError")
    ELSE Verdict(/\ ~IsNone(o.prop1)
                 /\ Val(o.prop1) = <<65535, 65535>>
                 /\ Len(Val(o.raw_data)) >= 4)

ConnectorObjectFunction_checkSanity(o, ver, verbose) ==
    IF Len(o.clients) > MaxFunctionClients /\ verbose > 1 THEN Raises("AttributeError")
    ELSE IF IsNone(o.raw_data) THEN Raises("TypeError")
    ELSE LET expsize == IF isGreaterOrEqVersion8(ver)
                        THEN 4 + 2 + 2 * Len(o.clients) + 4 + 2 + 4 * Len(o.clients)
                        ELSE 4 + 2 + 2 * Len(o.clients) + 4 + 2 * Len(o.clients)
         IN  Verdict(/\ Len(o.clients) <= MaxFunctionClients
                     /\ Len(Val(o.raw_data)) = expsize)

ConnectorObjectArray_checkSanity(o) ==
    IF "dimensions" \notin o.attrs THEN Raises("AttributeError")
    ELSE IF Len(o.dimensions) = 0 THEN Raises("IndexError")
    ELSE Verdict(/\ Len(o.dimensions) <= MaxArrayDims
                 /\ Len(o.clients) = 1
                 /\ o.dimensions[1].flags >= 128
                 /\ ~ForwardRefs(o))

ConnectorObjectUnit_checkSanity(o) ==
    IF "padding1" \notin o.attrs THEN Raises("AttributeError")
    ELSE Verdict(/\ IsNone(o.padding1) \/ Val(o.padding1) = <<0>>
                 /\ ~IsNone(o.prop1)
                 /\ Val(o.prop1) = 0
                 /\ Len(o.values) >= 1)

ConnectorObjectRef_checkSanity(o) ==
    LET rt == refType(o)
    IN  Verdict(/\ rt \in {RT_DataLogFile, RT_Queue, RT_UserEvent, RT_ControlRefnum,
                           RT_NotifierRefnum, RT_DataValueRef} => Len(o.clients) <= 1
                /\ rt = RT_EventRegistration => (o.tmp1 = 0 /\ Len(o.clients) >= 1)
                /\ ~ForwardRefs(o))

ConnectorObjectCluster_checkSanity(o) ==
    IF fullType(o) = FT_Cluster THEN Verdict(Len(o.clients) <= MaxClusterClients)
    ELSE IF fullType(o) = FT_MeasureData
    THEN IF IsNone(o.clusterFmt) THEN Raises("TypeError")
         ELSE Verdict(Val(o.clusterFmt) <= MaxClusterFmt)
    ELSE Verdict(TRUE)

checkSanity(o, env) ==
    CASE o.cls \in {"Void", "Bool"} -> ConnectorObjectVoid_checkSanity(o)
      [] o.cls = "Number" -> ConnectorObjectNumber_checkSanity(o, env.verbose)
      [] o.cls = "NumberPtr" -> ConnectorObjectNumberPtr_checkSanity(o)
      [] o.cls = "Blob" -> ConnectorObjectBlob_checkSanity(o, env.verbose)
      [] o.cls = "Function" -> ConnectorObjectFunction_checkSanity(o, env.ver, env.verbose)
      [] o.cls = "Array" -> ConnectorObjectArray_checkSanity(o)
      [] o.cls = "Unit" -> ConnectorObjectUnit_checkSanity(o)
      [] o.cls = "Ref" -> ConnectorObjectRef_checkSanity(o)
      [] o.cls = "Cluster" -> ConnectorObjectCluster_checkSanity(o)
      [] OTHER -> ConnectorObject_checkSanity(o)


(***************************************************************************)
(* Text conversions of the text mirror: "{:d}".format(n) and int(s, 0) on  *)
(* decimal digits, and the label's decode/encode in the container's text   *)
(* encoding, which maps the codes below 128 to themselves.                 *)
(***************************************************************************)
RECURSIVE DecStr(_)
DecStr(n) == IF n < 10 THEN <<48 + n>> ELSE DecStr(n \div 10) \o <<48 + (n % 10)>>

RECURSIVE ParseInt0(_)
ParseInt0(s) ==
    IF Len(s) = 0 THEN 0
    ELSE ParseInt0(SubSeq(s, 1, Len(s) - 1)) * 10 + (s[Len(s)] - 48)

IsAscii(bytes) == \A k \in 1 .. Len(bytes) : bytes[k] < 128

(***************************************************************************)
(* exportXMLBitfields / importXMLBitfields of LVmisc: one attribute per    *)
(* bit that is set and not masked; the import adds the bits up again.      *)
(***************************************************************************)
BitSet(flags, n) == (flags \div (2 ^ n)) % 2 = 1

exportXMLBitfields(flags, skip_mask) ==
    {n \in 0 .. 7 : BitSet(flags, n) /\ ~BitSet(skip_mask, n)}

RECURSIVE SumBits(_)
SumBits(bits) ==
    IF bits = {} THEN 0
    ELSE LET n == CHOOSE m \in bits : TRUE IN 2 ^ n + SumBits(bits \ {n})

importXMLBitfields(bits) == SumBits(bits)

(***************************************************************************)
(* exportXML and exportXMLFinish.  The element is a record: Format, File   *)
(* (the sidecar bytes), Prop1, Label, Flags; "err" is the exception.       *)
(***************************************************************************)
EmptyElem == [Format |-> "", File |-> None, Prop1 |-> None, Label |-> None,
              Flags |-> {}, Type |-> 0, err |-> "none"]

\* exportXML with the inline form kept for sizes below 4 only.
ConnectorObject_exportXML_Below4(o, elem) ==
    IF IsNone(o.size) THEN [elem EXCEPT !.err = "TypeError"]
    ELSE IF Val(o.size) < 4 THEN [elem EXCEPT !.Format = "inline"]
    ELSE [elem EXCEPT !.Format = "bin", !.File = Some(SubSeq(getData(o), 5, Len(getData(o))))]

ConnectorObject_exportXML(o, elem) ==
    IF IsNone(o.size) THEN [elem EXCEPT !.err = "TypeError"]
    ELSE IF Val(o.size) <= 4 THEN [elem EXCEPT !.Format = "inline"]
    ELSE [elem EXCEPT !.Format = "bin", !.File = Some(SubSeq(getData(o), 5, Len(getData(o))))]

ConnectorObjectVoid_exportXML(o, elem) == [elem EXCEPT !.Format = "inline"]

ConnectorObjectNumber_exportXML(o, elem) ==
    IF IsNone(o.prop1) THEN [elem EXCEPT !.err = "TypeError"]
    ELSE [elem EXCEPT !.Prop1 = Some(DecStr(Val(o.prop1))), !.Format = "inline"]

exportXML(o, elem) ==
    CASE o.cls \in {"Void", "Bool"} -> ConnectorObjectVoid_exportXML(o, elem)
      [] o.cls = "Number" -> ConnectorObjectNumber_exportXML(o, elem)
      [] OTHER -> ConnectorObject_exportXML(o, elem)

exportXMLFinishFlags(o) ==
    IF ~IsNone(o.label) THEN SetHasLabel(o.oflags) ELSE ClearHasLabel(o.oflags)

exportXMLFinish(o, elem) ==
    LET oflags == exportXMLFinishFlags(o)
    IN  IF elem.Format = "bin"
        THEN [elem EXCEPT !.Flags = exportXMLBitfields(oflags, 0)]
        ELSE IF ~IsNone(o.label) /\ ~IsAscii(Val(o.label))
        THEN [elem EXCEPT !.err = "UnicodeDecodeError"]
        ELSE [elem EXCEPT !.Flags = exportXMLBitfields(oflags, HasLabel),
                          !.Label = o.label]

(***************************************************************************)
(* The container's part of the export and of the import: it calls          *)
(* parseData through exportXML, writes the type tag beside what the        *)
(* connector exports, and on import builds the object from the tag and the *)
(* flag attributes before it calls initWithXML.                            *)
(***************************************************************************)
exportConnector(o, env) ==
    With(parseData(o, env), LAMBDA o1 :
        IF o1.err # "none" THEN [o |-> o1, elem |-> [EmptyElem EXCEPT !.err = o1.err]]
        ELSE With(exportXML(o1, [EmptyElem EXCEPT !.Type = o1.otype]), LAMBDA e1 :
            IF e1.err # "none" THEN [o |-> o1, elem |-> e1]
            ELSE [o |-> [o1 EXCEPT !.oflags = exportXMLFinishFlags(o1)],
                  elem |-> exportXMLFinish(o1, e1)]))

(***************************************************************************)
(* initWithXML: the inline form sets the label (and Prop1 for Number) and  *)
(* encodes; the bin form rebuilds the header around the sidecar bytes.     *)
(***************************************************************************)
initWithXMLInlineStart(o, elem) == [o EXCEPT !.label = elem.Label]

(***************************************************************************)
(* The object an inline import hands to updateData: the label set, and for *)
(* Number Prop1 parsed.                                                    *)
(***************************************************************************)
initWithXMLInlineFields(o, elem) ==
    IF o.cls = "Number"
    THEN IF IsNone(elem.Prop1) THEN [initWithXMLInlineStart(o, elem) EXCEPT !.err = "TypeError"]
         ELSE [initWithXMLInlineStart(o, elem) EXCEPT
                  !.prop1 = Some(ParseInt0(Val(elem.Prop1)))]
    ELSE initWithXMLInlineStart(o, elem)

ConnectorObject_initWithXML(o, elem) ==
    IF elem.Format = "inline" THEN updateData(initWithXMLInlineFields(o, elem))
    ELSE IF elem.Format = "bin"
    THEN LET o1 == [o EXCEPT !.label = IF HasLabelBit(o.oflags) THEN Some(<<>>) ELSE None]
             data_buf == IF IsNone(elem.File) THEN <<>> ELSE Val(elem.File)
         IN  IF IsNone(elem.File) THEN [o1 EXCEPT !.err = "TypeError"]
             ELSE IF Len(data_buf) + 4 >= 65536 THEN [o1 EXCEPT !.err = "OverflowError"]
             ELSE setData(o1, HeaderBytes(o1, Len(data_buf) + 4) \o data_buf)
    ELSE [o EXCEPT !.err = "NotImplementedError"]

ConnectorObjectVoid_initWithXML(o, elem) ==
    IF elem.Format = "inline" THEN updateData(initWithXMLInlineFields(o, elem))
    ELSE ConnectorObject_initWithXML(o, elem)

ConnectorObjectNumber_initWithXML(o, elem) ==
    IF elem.Format = "inline"
    THEN IF initWithXMLInlineFields(o, elem).err # "none" THEN initWithXMLInlineFields(o, elem)
         ELSE updateData(initWithXMLInlineFields(o, elem))
    ELSE ConnectorObject_initWithXML(o, elem)

initWithXML(o, elem) ==
    CASE o.cls \in {"Void", "Bool"} -> ConnectorObjectVoid_initWithXML(o, elem)
      [] o.cls = "Number" -> ConnectorObjectNumber_initWithXML(o, elem)
      [] OTHER -> ConnectorObject_initWithXML(o, elem)

importConnector(idx, elem, env) ==
    With(initWithXML(newConnectorObject(idx, importXMLBitfields(elem.Flags), elem.Type),
                     elem), LAMBDA o1 :
        IF o1.err # "none" THEN o1 ELSE parseData(o1, env))


(***************************************************************************)
(* The container's loading of one record from a stream, as                 *)
(* parseRSRCNestedConnector does it for a nested one: read the header,     *)
(* build the object for its tag, hand it obj_len bytes of the stream.      *)
(***************************************************************************)
parseRSRCConnector(buf, idx) ==
    LET h == parseRSRCDataHeader(buf, 0)
    IN  initWithRSRC(newConnectorObject(idx, h.obj_flags, h.obj_type), buf, 0, h.obj_len)

(***************************************************************************)
(* The byte strings the model feeds the decoder.  Rec is a record whose    *)
(* header length is right; Hdr alone writes a header for a short stream.   *)
(***************************************************************************)
Hdr(n, flags, tag) == ToBytes2(n) \o <<flags, tag>>
Rec(flags, tag, body) == Hdr(Len(body) + 4, flags, tag) \o body

FFFF == <<255, 255, 255, 255>>
Zeros(n) == [i \in 1 .. n |-> 0]

VoidInputs ==
    { Rec(0, 0, <<>>), Rec(64, 0, <<1, 65>>), Rec(64, 0, <<0, 0>>), Rec(64, 0, <<1, 1>>),
      Rec(0, 0, <<65, 66>>), Rec(0, 33, <<>>), Rec(64, 33, <<2, 65, 66, 0>>),
      Rec(64, 0, <<1, 200>>), Rec(64, 0, <<1, 127>>) }

NumberInputs ==
    { Rec(0, 3, <<0>>), Rec(0, 3, <<1>>), Rec(64, 3, <<0, 1, 65>>), Hdr(5, 0, 3),
      Rec(0, 3, <<0, 65>>) }

BlobInputs ==
    { Rec(0, 48, FFFF), Hdr(8, 0, 48) \o <<255, 255>>, Rec(64, 48, FFFF \o <<1, 65>>),
      Rec(0, 50, FFFF), Rec(0, 48, <<0, 0, 0, 0>>) }

NumberPtrInputs ==
    { Rec(0, 128, <<>>), Rec(64, 128, <<0, 0>>), Rec(64, 128, <<1, 2, 1, 65>>) }

FunctionInputs ==
    { Rec(0, 240, <<0, 0, 0, 0, 0, 0>>),
      Rec(0, 240, <<0, 1, 0, 0, 0, 0, 0, 0, 0, 1>>),
      Rec(0, 240, <<0, 2, 0, 0, 0, 1, 0, 0, 0, 0, 0, 1, 0, 2>>),
      Rec(0, 240, <<0, 0, 0, 0, 0, 0, 0, 0>>),
      Rec(0, 240, <<0, 1, 0, 0, 0, 0, 0, 0, 0, 0, 0, 0, 0, 1>>),
      Hdr(14, 0, 240) \o <<0, 1>>,
      Rec(0, 240, <<0, MaxFunctionClients + 1>> \o Zeros(2 * (MaxFunctionClients + 1))
                      \o <<0, 0, 0, 0>> \o Zeros(2 * (MaxFunctionClients + 1))) }

TypeDefInputs ==
    { Rec(0, 241, <<0, 0, 0, 0, 0, 0, 0, 0>> \o Rec(0, 3, <<0>>)),
      Rec(0, 241, <<0, 0, 0, 1, 0, 0, 0, 1, 1, 65>> \o Rec(0, 80, <<0, 1, 0, 0>>)),
      Rec(0, 241, <<0, 0, 0, 0, 0, 0, 0, 0>> \o Rec(64, 33, <<1, 65>>)),
      Rec(0, 241, <<0, 0, 0, 0, 0, 0, 0, 0>> \o Hdr(9, 0, 3) \o <<0>>) }

\* n dimensions of the fixed size 2.
FixedDims(n) == [i \in 1 .. 4 * n |-> <<128, 0, 0, 2>>[((i - 1) % 4) + 1]]

ArrayInputs ==
    { Rec(0, 64, <<0, 1, 128, 0, 0, 2, 0, 0>>), Rec(0, 64, <<0, 0, 0, 0>>),
      Rec(0, 64, <<0, 1, 255, 255, 255, 255, 0, 5>>),
      Rec(0, 64, <<0, MaxArrayDims + 1>> \o FixedDims(MaxArrayDims + 1) \o <<0, 0>>) }

UnitInputs ==
    { Rec(0, 21, <<0, 1, 1, 65, 0>>), Rec(0, 21, <<0, 2, 1, 65, 1, 66, 0>>),
      Rec(0, 22, <<0, 1, 2, 65, 66, 0, 0>>),
      Rec(0, 25, <<0, 1, 0, 0, 0, 10, 0>>), Rec(0, 25, <<0, 2, 0, 1, 0, 255, 0, 0, 0, 0, 0>>),
      Rec(0, 21, <<0, 0, 0>>) }

RefInputs ==
    { Rec(0, 112, <<0, 18, 0, 1, 0, 0>>), Rec(0, 112, <<0, 4>>),
      Rec(0, 112, <<0, 8, 0, 1, 0, 0, 0, 0, 0, 0>>),
      Rec(0, 112, <<0, 23, 0, 0, 0, 1, 0, 0, 0, 0, 0, 0, 0, 0>>),
      Rec(0, 112, <<0, 32, 0, 1, 0, 5, 0>>), Rec(0, 112, <<0, 17, 0, 0>>) }

ClusterInputs ==
    { Rec(0, 80, <<0, 1, 0, 0>>), Rec(0, 80, <<0, 1, 0, 5>>), Rec(0, 80, <<0, 2, 0, 0, 0, 1>>),
      Rec(0, 80, <<0, 0>>), Rec(0, 84, <<0, 6>>), Rec(0, 83, <<>>),
      Rec(64, 80, <<0, 1, 0, 0, 1, 65>>),
      Rec(0, 80, ToBytes2(MaxClusterClients + 1) \o Zeros(2 * (MaxClusterClients + 1))) }

GenericInputs ==
    { Rec(0, 96, <<>>), Rec(0, 96, <<7, 7>>), Rec(64, 96, <<1, 65>>), Rec(64, 96, <<1, 1>>),
      Rec(64, 96, <<0, 0>>), Rec(0, 144, <<7>>), Rec(64, 144, <<7, 7, 1, 65>>),
      Rec(0, 242, <<>>), Rec(64, 208, <<2, 65, 66, 0>>) }

Inputs ==
    VoidInputs \cup NumberInputs \cup BlobInputs \cup NumberPtrInputs \cup FunctionInputs
        \cup TypeDefInputs \cup ArrayInputs \cup UnitInputs \cup RefInputs
        \cup ClusterInputs \cup GenericInputs

TagOf(b) == parseRSRCDataHeader(b, 0).obj_type

Indices == {1}

Envs == [ver : {7, 8}, verbose : {0, 2}, dataSource : {"rsrc", "xml"}]

(***************************************************************************)
(* A container read from a resource file has the data source "rsrc", one   *)
(* read from a text file "xml".                                            *)
(***************************************************************************)

(***************************************************************************)
(* The elements the model imports: inline elements with a label that is    *)
(* absent, empty, printable, or holds a control byte.                      *)
(***************************************************************************)
LongLabel == [i \in 1 .. MaxLabelLen + 1 |-> 65]

XmlLabels == {None, Some(<<>>), Some(<<65>>), Some(<<65, 66>>), Some(<<1>>), Some(LongLabel)}

XmlInputs ==
    { [EmptyElem EXCEPT !.Format = "inline", !.Type = t, !.Label = l, !.Prop1 = p,
                        !.Flags = f] :
        t \in {0, 3, 96}, l \in XmlLabels, p \in {None, Some(<<48>>)}, f \in {{}, {0}} }
    \cup { [EmptyElem EXCEPT !.Format = "text", !.Type = 0] }

NoTrack == [bytes |-> None, stage |-> "other", fromWire |-> FALSE]

NoTable == [present |-> FALSE, content |-> <<>>]

Init ==
    /\ vi \in Envs
    /\ \/ \E b \in Inputs, idx \in Indices :
            /\ obj = parseRSRCConnector(b, idx)
            /\ trk = [bytes |-> Some(b), stage |-> "loaded", fromWire |-> FALSE]
            /\ lastOp = "initWithRSRC"
            /\ vi.dataSource = "rsrc"
            /\ prev = obj
       \/ \E elem \in XmlInputs :
            LET o0 == newConnectorObject(1, importXMLBitfields(elem.Flags), elem.Type)
            IN  /\ obj = initWithXML(o0, elem)
                /\ prev = IF elem.Format = "inline" THEN initWithXMLInlineFields(o0, elem)
                          ELSE o0
                /\ trk = NoTrack
                /\ lastOp = "initWithXML"
                /\ vi.dataSource = "xml"
    /\ wire = IF lastOp = "initWithXML" /\ obj.err = "none" THEN obj.raw_data ELSE None
    /\ imp = None
    /\ steps = 0
    /\ vctp = NoTable
    /\ lists = None

Live == obj.err = "none" /\ steps < MaxSteps

Step(op, o) ==
    /\ obj' = o
    /\ prev' = obj
    /\ lastOp' = op
    /\ steps' = steps + 1
    /\ UNCHANGED <<vi, vctp, lists>>

ParseData ==
    /\ Live
    /\ Step("parseData", parseData(obj, vi))
    /\ trk' = IF trk.stage = "loaded" /\ obj'.err = "none" /\ ~obj'.raw_data_updated
              THEN [trk EXCEPT !.stage = "decoded"]
              ELSE IF trk.stage = "replaced"
              THEN [trk EXCEPT !.stage = "redecoded"]
              ELSE trk
    /\ UNCHANGED <<wire, imp>>

UpdateData ==
    /\ Live
    /\ Step("updateData", updateData(obj))
    /\ wire' = IF obj'.err = "none" THEN obj'.raw_data ELSE wire
    /\ trk' = IF trk.stage = "decoded" /\ obj'.err = "none"
              THEN [trk EXCEPT !.stage = "reencoded"]
              ELSE NoTrack
    /\ UNCHANGED imp

SetData ==
    /\ Live
    /\ \E b \in Inputs :
          /\ ctor(TagOf(b)) = obj.cls
          /\ Step("setData", setData(obj, b))
    /\ trk' = IF trk.stage = "decoded" THEN [NoTrack EXCEPT !.stage = "replaced"]
              ELSE NoTrack
    /\ UNCHANGED <<wire, imp>>

Reload ==
    /\ Live
    /\ ~IsNone(wire)
    /\ Step("initWithRSRC", parseRSRCConnector(Val(wire), obj.index))
    /\ trk' = [bytes |-> wire, stage |-> "loaded", fromWire |-> TRUE]
    /\ UNCHANGED <<wire, imp>>

Mirror ==
    /\ Live
    /\ ~IsNone(obj.raw_data)
    /\ Step("exportXML", exportConnector(obj, vi).o)
    /\ imp' = With(exportConnector(obj, vi), LAMBDA x :
                  IF x.elem.err = "none"
                  THEN Some(importConnector(obj.index, x.elem, vi))
                  ELSE Some([x.o EXCEPT !.err = x.elem.err]))
    /\ trk' = IF trk.stage = "loaded" /\ obj'.err = "none" /\ ~obj'.raw_data_updated
              THEN [trk EXCEPT !.stage = "decoded"]
              ELSE IF trk.stage = "replaced" THEN NoTrack
              ELSE trk
    /\ UNCHANGED wire

Next == ParseData \/ UpdateData \/ SetData \/ Reload \/ Mirror

Spec == Init /\ [][Next]_vars


(***************************************************************************)
(* The client graph.  vctp is the container's VCTP block: present or not,  *)
(* and its content, the list of connectors; a connector's index is its     *)
(* position in the list, counted from 0.  A reference names an object the  *)
(* way the code reaches it: an entry of the list, or from there the nested *)
(* connector of a client (path, one client position per step).             *)
(***************************************************************************)
mainType(o) ==
    IF o.otype = 0 THEN [v |-> MT_Void, err |-> "none"]
    ELSE IF o.otype < 0
    THEN IF o.otype \in MainTypeValues THEN [v |-> o.otype, err |-> "none"]
         ELSE [v |-> o.otype, err |-> "ValueError"]
    ELSE IF (o.otype \div 16) \in MainTypeValues
    THEN [v |-> o.otype \div 16, err |-> "none"]
    ELSE [v |-> o.otype \div 16, err |-> "ValueError"]

isNumber(o) ==
    LET m == mainType(o)
    IN  IF m.err # "none" THEN [v |-> FALSE, err |-> m.err]
        ELSE [v |-> m.v = MT_Number \/ m.v = MT_Unit \/ fullType(o) = FT_FixedPoint,
              err |-> "none"]

isString(o) == fullType(o) = FT_String

isPath(o) == fullType(o) = FT_Path

hasClients(o) == Len(o.clients) > 0

RECURSIVE GetAt(_, _)
GetAt(o, path) ==
    IF path = <<>> THEN o
    ELSE GetAt(Val(o.clients[Head(path)].nested), Tail(path))

RECURSIVE PutAt(_, _, _)
PutAt(o, path, new) ==
    IF path = <<>> THEN new
    ELSE [o EXCEPT !.clients[Head(path)].nested = Some(PutAt(Val(@), Tail(path), new))]

Ref(idx, path) == [idx |-> idx, path |-> path]

Deref(tbl, ref) == GetAt(tbl.content[ref.idx + 1], ref.path)

\* The object as it is left behind when an operation on it raised.
Quiet(o) == [o EXCEPT !.err = "none"]

Store(tbl, ref, o) == [tbl EXCEPT !.content[ref.idx + 1] = PutAt(@, ref.path, Quiet(o))]

\* clientsEnumerate without the test for the missing VCTP block.
clientsEnumerate_NoTableTest(tbl, ref) ==
    With(Deref(tbl, ref), LAMBDA self :
        IF \E k \in 1 .. Len(self.clients) :
                    /\ self.clients[k].index # -1
                    /\ self.clients[k].index >= Len(tbl.content)
        THEN [items |-> <<>>, err |-> "IndexError"]
        ELSE [items |-> [k \in 1 .. Len(self.clients) |->
                            [i |-> k - 1,
                             index |-> self.clients[k].index,
                             conn_obj |-> IF self.clients[k].index = -1
                                          THEN Ref(ref.idx, ref.path \o <<k>>)
                                          ELSE Ref(self.clients[k].index, <<>>),
                             flags |-> self.clients[k].flags]],
              err |-> "none"])

clientsEnumerate(tbl, ref) ==
    With(Deref(tbl, ref), LAMBDA self :
        IF ~tbl.present THEN [items |-> <<>>, err |-> "LookupError"]
        ELSE IF \E k \in 1 .. Len(self.clients) :
                    /\ self.clients[k].index # -1
                    /\ self.clients[k].index >= Len(tbl.content)
        THEN [items |-> <<>>, err |-> "IndexError"]
        ELSE [items |-> [k \in 1 .. Len(self.clients) |->
                            [i |-> k - 1,
                             index |-> self.clients[k].index,
                             conn_obj |-> IF self.clients[k].index = -1
                                          THEN Ref(ref.idx, ref.path \o <<k>>)
                                          ELSE Ref(self.clients[k].index, <<>>),
                             flags |-> self.clients[k].flags]],
              err |-> "none"])

EmptyLists ==
    [number |-> <<>>, path |-> <<>>, string |-> <<>>, compound |-> <<>>, other |-> <<>>]

Extend(out_lists, sub_lists) == [k \in DOMAIN out_lists |-> out_lists[k] \o sub_lists[k]]

Failed(tbl, e) == [tbl |-> tbl, lists |-> EmptyLists, err |-> e]

\* The if/elif chain that picks the list a client is appended to.
ListOf(conn_obj) ==
    With(isNumber(conn_obj), LAMBDA num :
        IF num.err # "none" THEN [name |-> "", err |-> num.err]
        ELSE [name |-> IF num.v THEN "number"
                       ELSE IF isPath(conn_obj) THEN "path"
                       ELSE IF isString(conn_obj) THEN "string"
                       ELSE IF hasClients(conn_obj) THEN "compound"
                       ELSE "other",
              err |-> "none"])

(***************************************************************************)
(* getClientConnectorsByType, with the loop over the clients as a second   *)
(* operator.  Both pass the table on, since parseData changes the objects  *)
(* it is called on.  fuel is the call depth the interpreter still allows.  *)
(***************************************************************************)
RECURSIVE getClientConnectorsByType(_, _, _, _)
RECURSIVE ClientsLoop(_, _, _, _, _, _)
getClientConnectorsByType(tbl, ref, env, fuel) ==
    IF fuel = 0 THEN Failed(tbl, "RecursionError")
    ELSE With(parseData(Deref(tbl, ref), env), LAMBDA self :
         With(Store(tbl, ref, self), LAMBDA tbl1 :
             IF self.err # "none" THEN Failed(tbl1, self.err)
             ELSE With(clientsEnumerate(tbl1, ref), LAMBDA en :
                  IF en.err # "none" THEN Failed(tbl1, en.err)
                  ELSE ClientsLoop(tbl1, en.items, 1, EmptyLists, env, fuel))))

\* The loop with the lists of a client's own clients put in front of the
\* lists gathered so far.
ClientsLoop_SubFirst(tbl, items, k, out_lists, env, fuel) ==
    IF k > Len(items) THEN [tbl |-> tbl, lists |-> out_lists, err |-> "none"]
    ELSE With(items[k].conn_obj, LAMBDA ref :
         With(parseData(Deref(tbl, ref), env), LAMBDA conn_obj :
         With(Store(tbl, ref, conn_obj), LAMBDA tbl1 :
             IF conn_obj.err # "none" THEN Failed(tbl1, conn_obj.err)
             ELSE IF checkSanity(conn_obj, env).err # "none"
             THEN Failed(tbl1, checkSanity(conn_obj, env).err)
             ELSE With(ListOf(conn_obj), LAMBDA to :
                  IF to.err # "none" THEN Failed(tbl1, to.err)
                  ELSE With([out_lists EXCEPT ![to.name] = Append(@, ref)], LAMBDA out1 :
                       IF hasClients(conn_obj)
                       THEN With(getClientConnectorsByType(tbl1, ref, env, fuel - 1),
                                 LAMBDA sub :
                                IF sub.err # "none" THEN Failed(sub.tbl, sub.err)
                                ELSE ClientsLoop(sub.tbl, items, k + 1,
                                                 Extend(sub.lists, out1), env, fuel))
                       ELSE ClientsLoop(tbl1, items, k + 1, out1, env, fuel))))))

ClientsLoop(tbl, items, k, out_lists, env, fuel) ==
    IF k > Len(items) THEN [tbl |-> tbl, lists |-> out_lists, err |-> "none"]
    ELSE With(items[k].conn_obj, LAMBDA ref :
         With(parseData(Deref(tbl, ref), env), LAMBDA conn_obj :
         With(Store(tbl, ref, conn_obj), LAMBDA tbl1 :
             IF conn_obj.err # "none" THEN Failed(tbl1, conn_obj.err)
             ELSE IF checkSanity(conn_obj, env).err # "none"
             THEN Failed(tbl1, checkSanity(conn_obj, env).err)
             ELSE With(ListOf(conn_obj), LAMBDA to :
                  IF to.err # "none" THEN Failed(tbl1, to.err)
                  ELSE With([out_lists EXCEPT ![to.name] = Append(@, ref)], LAMBDA out1 :
                       IF hasClients(conn_obj)
                       THEN With(getClientConnectorsByType(tbl1, ref, env, fuel - 1),
                                 LAMBDA sub :
                                IF sub.err # "none" THEN Failed(sub.tbl, sub.err)
                                ELSE ClientsLoop(sub.tbl, items, k + 1,
                                                 Extend(out1, sub.lists), env, fuel))
                       ELSE ClientsLoop(tbl1, items, k + 1, out1, env, fuel))))))

(***************************************************************************)
(* The tables the model classifies: TableLen connectors, each loaded from  *)
(* one of these records, whose clients name positions 0, 1, 2 of the table *)
(* or, for one of them, a position past its end.                           *)
(***************************************************************************)
TableLen == 3

TableRecords ==
    { Rec(0, 3, <<0>>), Rec(0, 48, FFFF), Rec(0, 50, FFFF), Rec(0, 96, <<>>),
      Rec(0, 144, <<7>>),
      Rec(0, 80, <<0, 1, 0, 0>>), Rec(0, 80, <<0, 2, 0, 0, 0, 1>>),
      Rec(0, 80, <<0, 2, 0, 1, 0, 0>>),
      Rec(0, 80, <<0, 1, 0, 2>>), Rec(0, 80, <<0, 1, 0, 5>>),
      Rec(0, 241, <<0, 0, 0, 0, 0, 0, 0, 0>> \o Rec(0, 3, <<0>>)) }

Tables == [1 .. TableLen -> TableRecords]

LoadTable(t, present) ==
    [present |-> present, content |-> [k \in 1 .. TableLen |-> parseRSRCConnector(t[k], k - 1)]]

InitClassify ==
    /\ vi \in {e \in Envs : e.dataSource = "rsrc" /\ e.ver = 8}
    /\ \E t \in Tables, present \in BOOLEAN : vctp = LoadTable(t, present)
    /\ lists = None
    /\ obj = newConnectorObject(0, 0, 0)
    /\ prev = obj
    /\ lastOp = "load"
    /\ trk = NoTrack
    /\ wire = None
    /\ imp = None
    /\ steps = 0

\* One call of getClientConnectorsByType on an entry of the table.
Classify ==
    /\ steps < MaxCalls
    /\ IF IsNone(lists) THEN TRUE ELSE Val(lists).err = "none"
    /\ \E start \in 0 .. TableLen - 1 :
          /\ lists' = With(getClientConnectorsByType(vctp, Ref(start, <<>>), vi, MaxDepth),
                           LAMBDA r : Some([start |-> start, out |-> r.lists, err |-> r.err,
                                            tbl |-> r.tbl]))
          /\ vctp' = Val(lists').tbl
    /\ lastOp' = "getClientConnectorsByType"
    /\ steps' = steps + 1
    /\ UNCHANGED <<obj, prev, vi, wire, trk, imp>>

NextClassify == Classify

SpecClassify == InitClassify /\ [][NextClassify]_vars

(***************************************************************************)
(* clientsEnumerate on the entries of a table.  The table holds 1 to       *)
(* TableLen connectors, as it does while the container is still reading    *)
(* them, so that a client can name a position that is not there yet.       *)
(* ParseEntry decodes one entry, Enumerate calls clientsEnumerate on one.   *)
(***************************************************************************)
EnumRecords ==
    { Rec(0, 3, <<0>>),
      Rec(0, 80, <<0, 2, 0, 0, 0, 1>>), Rec(0, 80, <<0, 1, 0, 5>>),
      Rec(0, 240, <<0, 1, 0, 0, 0, 0, 0, 0, 0, 0, 0, 0, 0, 9>>),
      Rec(0, 241, <<0, 0, 0, 0, 0, 0, 0, 0>> \o Rec(0, 3, <<0>>)) }

PartTables == UNION { [1 .. n -> EnumRecords] : n \in 1 .. TableLen }

LoadPartTable(t, present) ==
    [present |-> present,
     content |-> [k \in 1 .. Len(t) |-> parseRSRCConnector(t[k], k - 1)]]

InitEnumerate ==
    /\ vi = [ver |-> 8, verbose |-> 0, dataSource |-> "rsrc"]
    /\ \E t \in PartTables, present \in BOOLEAN : vctp = LoadPartTable(t, present)
    /\ lists = None
    /\ obj = newConnectorObject(0, 0, 0)
    /\ prev = obj
    /\ lastOp = "load"
    /\ trk = NoTrack
    /\ wire = None
    /\ imp = None
    /\ steps = 0

ParseEntry ==
    /\ IsNone(lists)
    /\ \E k \in 1 .. Len(vctp.content) :
          /\ vctp.content[k].raw_data_updated
          /\ parseData(vctp.content[k], vi).err = "none"
          /\ vctp' = [vctp EXCEPT !.content[k] = parseData(@, vi)]
    /\ lastOp' = "parseData"
    /\ UNCHANGED <<obj, prev, vi, wire, trk, imp, steps, lists>>

Enumerate ==
    /\ IsNone(lists)
    /\ \E start \in 0 .. Len(vctp.content) - 1 :
          lists' = With(clientsEnumerate(vctp, Ref(start, <<>>)), LAMBDA en :
                       Some([start |-> start, items |-> en.items, err |-> en.err]))
    /\ lastOp' = "clientsEnumerate"
    /\ UNCHANGED <<obj, prev, vi, wire, trk, imp, steps, vctp>>

NextEnumerate == ParseEntry \/ Enumerate

SpecEnumerate == InitEnumerate /\ [][NextEnumerate]_vars

(***************************************************************************)
(* The construction of one connector for a type tag, as the container does *)
(* it for each record it reads: every tag of one byte, with and without    *)
(* the HasLabel flag.                                                      *)
(***************************************************************************)
TypeTags == 0 .. 255

InitDispatch ==
    /\ vi = [ver |-> 8, verbose |-> 0, dataSource |-> "rsrc"]
    /\ obj = newConnectorObject(0, 0, 0)
    /\ prev = obj
    /\ lastOp = "load"
    /\ trk = NoTrack
    /\ wire = None
    /\ imp = None
    /\ steps = 0
    /\ vctp = NoTable
    /\ lists = None

Dispatch ==
    /\ steps < MaxCalls
    /\ \E obj_type \in TypeTags, obj_flags \in {0, HasLabel}, idx \in {0, 1} :
          obj' = newConnectorObject(idx, obj_flags, obj_type)
    /\ prev' = obj
    /\ lastOp' = "newConnectorObject"
    /\ steps' = steps + 1
    /\ UNCHANGED <<vi, wire, trk, imp, vctp, lists>>

NextDispatch == Dispatch

SpecDispatch == InitDispatch /\ [][NextDispatch]_vars

(***************************************************************************)
(* The header alone.  data_head is the header as updateData and the bin    *)
(* form of initWithXML build it for a record of n bytes: to_bytes(2) of n, *)
(* which raises OverflowError from 65536 on, then the flags and the tag.   *)
(* WriteHeader builds it for a length drawn from HeaderLengths, ReadHeader *)
(* gives the bytes written to parseRSRCDataHeader.                         *)
(***************************************************************************)
data_head(o, n) ==
    IF n >= 65536 THEN [buf |-> <<>>, err |-> "OverflowError"]
    ELSE [buf |-> HeaderBytes(o, n), err |-> "none"]

HeaderLengths == {4, 5, 6, 255, 256, 32767, 32768, 32769, 40000, 65535, 65536, 70000}

InitHeader ==
    /\ vi = [ver |-> 8, verbose |-> 0, dataSource |-> "rsrc"]
    /\ \E obj_type \in {0, 3, 96, 240, 255}, obj_flags \in {0, HasLabel, 255} :
          obj = newConnectorObject(0, obj_flags, obj_type)
    /\ prev = obj
    /\ lastOp = "load"
    /\ trk = NoTrack
    /\ wire = None
    /\ imp = None
    /\ steps = 0
    /\ vctp = NoTable
    /\ lists = None

WriteHeader ==
    /\ lastOp = "load"
    /\ \E n \in HeaderLengths :
          /\ obj' = [obj EXCEPT !.size = Some(n), !.err = data_head(obj, n).err]
          /\ wire' = IF data_head(obj, n).err = "none" THEN Some(data_head(obj, n).buf)
                     ELSE None
    /\ prev' = obj
    /\ lastOp' = "writeHeader"
    /\ steps' = steps + 1
    /\ UNCHANGED <<vi, trk, imp, vctp, lists>>

ReadHeader ==
    /\ lastOp = "writeHeader"
    /\ ~IsNone(wire)
    /\ lists' = Some(parseRSRCDataHeader(Val(wire), 0))
    /\ lastOp' = "readHeader"
    /\ steps' = steps + 1
    /\ UNCHANGED <<obj, prev, vi, wire, trk, imp, vctp>>

NextHeader == WriteHeader \/ ReadHeader

SpecHeader == InitHeader /\ [][NextHeader]_vars

(***************************************************************************)
(* Predicates on the history the claims speak of.                          *)
(***************************************************************************)
\* The last operation was a parseData that ran the decoder and completed.
DecodeCompleted ==
    /\ lastOp = "parseData"
    /\ obj.err = "none"
    /\ needParseData(prev)
    /\ prev.raw_data_updated \/ (~prev.parsed_data_updated /\ vi.dataSource = "rsrc")

\* The last operation ran the decoder, whether it completed or raised.
DecodeRan ==
    /\ lastOp = "parseData"
    /\ needParseData(prev)
    /\ prev.raw_data_updated \/ (~prev.parsed_data_updated /\ vi.dataSource = "rsrc")

\* obj was loaded from a stream and decoded once since, with nothing else done.
FreshlyDecoded == DecodeCompleted /\ trk.stage = "decoded" /\ prev.raw_data = obj.raw_data

\* The last operation was an encode that completed: updateData itself, or
\* the updateData an inline import ends with.  prev is the object it started on.
EncodeCompleted ==
    /\ obj.err = "none"
    /\ lastOp = "updateData" \/ (lastOp = "initWithXML" /\ prev.raw_data # obj.raw_data)

Sane == checkSanity(obj, vi)

Agreement(o) == IsNone(o.label) <=> ~HasLabelBit(o.oflags)

(***************************************************************************)
(* C1.  Binary round trip: bytes that updateData produced, loaded into a   *)
(* new object, decoded and encoded again, give the same bytes.             *)
(***************************************************************************)
C1_BinaryRoundTrip ==
    (lastOp = "updateData" /\ obj.err = "none" /\ trk.stage = "reencoded" /\ trk.fromWire)
        => obj.raw_data = trk.bytes

(***************************************************************************)
(* C2.  Text mirror round trip: exporting a decoded record and importing   *)
(* the export completes and gives an object with the same raw bytes.       *)
(***************************************************************************)
C2_TextMirrorRoundTrip ==
    (lastOp = "exportXML" /\ obj.err = "none" /\ Val(obj.size) = Len(getData(obj)))
        => /\ ~IsNone(imp)
           /\ Val(imp).err = "none"
           /\ Val(imp).raw_data = obj.raw_data

(***************************************************************************)
(* C3.  Forward-reference scan on Cluster: after decoding a Cluster record *)
(* of at most 500 clients, checkSanity returns TRUE exactly when every     *)
(* client index is below the record's own index.                           *)
(***************************************************************************)
C3_ClusterForwardScan ==
    (/\ FreshlyDecoded
     /\ obj.cls = "Cluster"
     /\ fullType(obj) = FT_Cluster
     /\ Len(obj.clients) <= MaxClusterClients)
        => /\ Sane.err = "none"
           /\ Sane.ret = ~ForwardRefs(obj)

(***************************************************************************)
(* C4.  Unit values: a Unit record whose sub-type (the low nibble of the   *)
(* tag) is uint8, uint16 or uint32 decodes its values as length-prefixed   *)
(* texts, any other as 4-byte integers shown in hexadecimal.               *)
(***************************************************************************)
C4_UnitValues ==
    (FreshlyDecoded /\ obj.cls = "Unit")
        => LET raw == getData(obj)
               isText == (obj.otype % 16) \in {FT_NumUInt8, FT_NumUInt16, FT_NumUInt32}
           IN  obj.values = ReadUnitValues(raw, 6, ReadInt(raw, 4, 2), 0, isText).items

(***************************************************************************)
(* C5.  Function version gating.  For a Function record without label      *)
(* whose bytes follow the layout before version 8 (10 + 4N bytes, N >= 0): *)
(* decoded at version 7 the clients are the N indices with the N 2-byte    *)
(* flags, and checkSanity returns TRUE for N <= 125; decoded at version 8  *)
(* checkSanity returns FALSE, for every N.                                 *)
(***************************************************************************)
PreV8Layout(raw) ==
    /\ Len(raw) >= 6
    /\ raw[4] = FT_Function
    /\ ~HasLabelBit(raw[3])
    /\ FromBytes(SubSeq(raw, 1, 2)) = Len(raw)
    /\ Len(raw) = 10 + 4 * ReadInt(raw, 4, 2)

C5_FunctionVersionGating ==
    (FreshlyDecoded /\ obj.cls = "Function" /\ PreV8Layout(getData(obj)))
        => LET raw == getData(obj)
               N == ReadInt(raw, 4, 2)
           IN  IF vi.ver >= 8
               THEN Sane.err = "none" /\ Sane.ret = FALSE
               ELSE /\ Len(obj.clients) = N
                    /\ \A i \in 1 .. N :
                          /\ obj.clients[i].index = ReadInt(raw, 6 + 2 * (i - 1), 2)
                          /\ obj.clients[i].flags = ReadInt(raw, 10 + 2 * N + 2 * (i - 1), 2)
                    /\ N <= MaxFunctionClients => (Sane.err = "none" /\ Sane.ret)

(***************************************************************************)
(* C6.  Recursive classification result: a call of                         *)
(* getClientConnectorsByType that does not end in a lookup failure or at   *)
(* the call depth limit returns, and its lists hold every client of the    *)
(* record once, in the list of the first predicate it matches in the order *)
(* number, path, string, has clients (compound), else other, followed by   *)
(* the lists of every client that has clients of its own.                  *)
(***************************************************************************)
C6_Category(o) == IF o.otype = 0 THEN MT_Void ELSE o.otype \div 16

C6_ListOf(o) ==
    IF C6_Category(o) \in {MT_Number, MT_Unit} \/ o.otype = FT_FixedPoint THEN "number"
    ELSE IF o.otype = FT_Path THEN "path"
    ELSE IF o.otype = FT_String THEN "string"
    ELSE IF Len(o.clients) > 0 THEN "compound"
    ELSE "other"

C6_ClientRef(ref, o, k) ==
    IF o.clients[k].index = -1 THEN Ref(ref.idx, ref.path \o <<k>>)
    ELSE Ref(o.clients[k].index, <<>>)

RECURSIVE C6_Expected(_, _, _, _)
C6_Expected(tbl, ref, k, fuel) ==
    LET o == Deref(tbl, ref)
    IN  IF fuel = 0 \/ k > Len(o.clients) THEN EmptyLists
        ELSE LET cref == C6_ClientRef(ref, o, k)
                 c == Deref(tbl, cref)
                 own == [EmptyLists EXCEPT ![C6_ListOf(c)] = <<cref>>]
                 sub == IF Len(c.clients) > 0 THEN C6_Expected(tbl, cref, 1, fuel - 1)
                        ELSE EmptyLists
             IN  Extend(Extend(own, sub), C6_Expected(tbl, ref, k + 1, fuel))

C6_ClassificationResult ==
    (/\ lastOp = "getClientConnectorsByType"
     /\ Val(lists).err \notin {"LookupError", "IndexError", "RecursionError"})
        => /\ Val(lists).err = "none"
           /\ Val(lists).out = C6_Expected(vctp, Ref(Val(lists).start, <<>>), 1, MaxDepth)

(***************************************************************************)
(* C7.  Unknown-tag fallback: a record of the generic class keeps its raw  *)
(* bytes through decoding, passes checkSanity, and encodes to the bytes it *)
(* was decoded from.                                                       *)
(***************************************************************************)
C7_UnknownTagFallback ==
    (obj.cls = "Generic" /\ obj.err = "none" /\ trk.stage \in {"decoded", "reencoded"})
        => /\ obj.raw_data = trk.bytes
           /\ Sane.ret

(***************************************************************************)
(* C8.  Label/HasLabel agreement: after every completed decode, and in     *)
(* every state an encode starts from, the label is None exactly when the   *)
(* HasLabel bit is clear.                                                  *)
(***************************************************************************)
C8_LabelFlagAgreement ==
    /\ DecodeCompleted => Agreement(obj)
    /\ EncodeCompleted => Agreement(prev)

(***************************************************************************)
(* C9.  Encoded length accounting: after every completed encode the        *)
(* header's 2-byte length and the size field equal the number of raw       *)
(* bytes, which is 4 + body + label block; the block is empty without      *)
(* label, else the length byte and the label (cut to 255 bytes) padded     *)
(* with a zero to an even length, and it ends the raw bytes.               *)
(***************************************************************************)
C9_LabelBlock(label) ==
    IF IsNone(label) THEN <<>>
    ELSE LET t == IF Len(Val(label)) > 255 THEN SubSeq(Val(label), 1, 255) ELSE Val(label)
         IN  <<Len(t)>> \o t \o (IF (1 + Len(t)) % 2 = 1 THEN <<0>> ELSE <<>>)

C9_EncodedLength ==
    EncodeCompleted
        => LET raw == getData(obj)
               body == prepareRSRCData(prev).buf
               block == C9_LabelBlock(prev.label)
           IN  /\ FromBytes(SubSeq(raw, 1, 2)) = Len(raw)
               /\ obj.size = Some(Len(raw))
               /\ Len(raw) = 4 + Len(body) + Len(block)
               /\ SubSeq(raw, 5, 4 + Len(body)) = body
               /\ SubSeq(raw, 5 + Len(body), Len(raw)) = block

C9_Witness ==
    /\ EncodeCompleted
    /\ lastOp = "updateData"
    /\ obj.label = Some(<<65, 66>>)
    /\ Len(prepareRSRCData(prev).buf) > 0
    /\ Len(getData(obj)) = 4 + Len(prepareRSRCData(prev).buf) + 4

(***************************************************************************)
(* C10.  Truncation is fatal: a decode of a record whose header length     *)
(* exceeds the bytes it holds, or whose body is shorter than its variant   *)
(* reads, ends with an error.                                              *)
(***************************************************************************)
BodyNeeds(o, raw, ver) ==
    CASE o.cls = "Number" -> 5
      [] o.cls = "Blob" -> 8
      [] o.cls = "Function" ->
            IF isGreaterOrEqVersion8(ver) THEN 12 + 6 * ReadInt(raw, 4, 2)
            ELSE 10 + 4 * ReadInt(raw, 4, 2)
      [] OTHER -> 4

Truncated(o, ver) ==
    LET raw == getData(o)
    IN  \/ FromBytes(SubSeq(raw, 1, Min(2, Len(raw)))) > Len(raw)
        \/ Len(raw) < BodyNeeds(o, raw, ver)

C10_TruncationFatal ==
    (DecodeRan /\ Truncated(prev, vi.ver)) => obj.err # "none"

(***************************************************************************)
(* C11.  Out-of-range counts are recoverable: after the decode of a        *)
(* Function record of more than 125 clients, of a Cluster record of more   *)
(* than 500 clients, or of an Array record of more than 64 dimensions,     *)
(* checkSanity returns FALSE and raises nothing, at every verbosity.       *)
(***************************************************************************)
OutOfRangeCount(o) ==
    \/ o.cls = "Function" /\ Len(o.clients) > MaxFunctionClients
    \/ o.cls = "Cluster" /\ fullType(o) = FT_Cluster /\ Len(o.clients) > MaxClusterClients
    \/ o.cls = "Array" /\ Len(o.dimensions) > MaxArrayDims

C11_OutOfRangeCounts ==
    (DecodeCompleted /\ OutOfRangeCount(obj)) => (Sane.err = "none" /\ ~Sane.ret)

(***************************************************************************)
(* C12.  checkSanity is total on decoded records: after every decode that  *)
(* completed, of every class, it returns a verdict and raises nothing.     *)
(***************************************************************************)
C12_ValidateTotal == DecodeCompleted => Sane.err = "none"

(***************************************************************************)
(* C13.  Two-tier dispatch: newConnectorObject builds, for every tag of    *)
(* one byte, the class of the exact tag when the tag is Void, Function or  *)
(* TypeDef, else the class of the category tag >> 4, else the generic      *)
(* class; the exact tag wins over the category.                            *)
(***************************************************************************)
C13_ExactTag == [t \in {0, 240, 241} |->
                    IF t = 0 THEN "Void" ELSE IF t = 240 THEN "Function" ELSE "TypeDef"]

C13_Category == <<"Number", "Unit", "Bool", "Blob", "Array", "Cluster", "Generic", "Ref",
                  "NumberPtr">>

C13_Variant(t) ==
    IF t \in DOMAIN C13_ExactTag THEN C13_ExactTag[t]
    ELSE IF t \div 16 < Len(C13_Category) THEN C13_Category[(t \div 16) + 1]
    ELSE "Generic"

C13_TwoTierDispatch ==
    lastOp = "newConnectorObject"
        => /\ obj.cls = C13_Variant(obj.otype)
           /\ obj.otype = FT_Void => obj.cls # "Number"
           /\ obj.otype \in {FT_Function, FT_TypeDef} => obj.cls # "Generic"

C13_Witness ==
    /\ lastOp = "newConnectorObject"
    /\ obj.otype = FT_TypeDef
    /\ obj.cls = "TypeDef"

(***************************************************************************)
(* C14.  Mode selection of the text mirror.  C14_Elem is the element the   *)
(* last exportXML/exportXMLFinish wrote.  The claim: the form is inline    *)
(* exactly when the size of the record is at most 4, for every class.      *)
(* What the classes do: Void, Bool and Number always write the inline      *)
(* form, the others the inline form exactly when the size is at most 4.    *)
(***************************************************************************)
C14_Elem == exportConnector(prev, vi).elem

ExportCompleted ==
    /\ lastOp = "exportXML"
    /\ obj.err = "none"
    /\ C14_Elem.err = "none"
    /\ ~IsNone(obj.size)

C14_ModeSelection ==
    ExportCompleted => (C14_Elem.Format = "inline" <=> Val(obj.size) <= 4)

C14_ModeByClass ==
    ExportCompleted
        => /\ C14_Elem.Format \in {"inline", "bin"}
           /\ C14_Elem.Format = "inline"
                 <=> (obj.cls \in {"Void", "Bool", "Number"} \/ Val(obj.size) <= 4)

C14_Witness ==
    /\ ExportCompleted
    /\ obj.cls = "Number"
    /\ Val(obj.size) > 4
    /\ C14_Elem.Format = "inline"

(***************************************************************************)
(* C15.  The header written is the inverse of the header read: for every   *)
(* flags byte, tag and length L the header is written without error, and   *)
(* parseRSRCDataHeader on it returns the tag, the flags and L and stops    *)
(* after 2 + width(L) bytes, width(L) being 2 below 0x8000 and 4 from      *)
(* there on; also for L >= 0x8000 and for L >= 65536.                      *)
(***************************************************************************)
C15_Width(n) == IF n < 32768 THEN 2 ELSE 4

C15_HeaderInverse ==
    /\ lastOp = "writeHeader" => obj.err = "none"
    /\ lastOp = "readHeader"
         => /\ Val(lists).obj_type = obj.otype
            /\ Val(lists).obj_flags = obj.oflags
            /\ Val(lists).obj_len = Val(obj.size)
            /\ Val(lists).pos = 2 + C15_Width(Val(obj.size))

(***************************************************************************)
(* C16.  Client enumeration.  With the table absent clientsEnumerate       *)
(* raises LookupError, whatever the clients are.  With a client that names *)
(* a position the table does not hold yet it raises a lookup failure       *)
(* (IndexError, which Python derives from LookupError).  Otherwise it      *)
(* returns one tuple per client, in the order of the client list: the      *)
(* position, the client's index, the record resolved (the nested record    *)
(* when the index is -1, else the entry of the table at the index) and the *)
(* client's flags.                                                         *)
(***************************************************************************)
C16_LookupFailures == {"LookupError", "IndexError"}

C16_Self == Deref(vctp, Ref(Val(lists).start, <<>>))

C16_NotThereYet ==
    \E k \in 1 .. Len(C16_Self.clients) :
        /\ C16_Self.clients[k].index # -1
        /\ C16_Self.clients[k].index >= Len(vctp.content)

C16_Resolved(client) ==
    IF client.index = -1 THEN Val(client.nested) ELSE vctp.content[client.index + 1]

C16_ClientEnumeration ==
    lastOp = "clientsEnumerate"
        => IF ~vctp.present THEN Val(lists).err = "LookupError"
           ELSE IF C16_NotThereYet THEN Val(lists).err \in C16_LookupFailures
           ELSE /\ Val(lists).err = "none"
                /\ Len(Val(lists).items) = Len(C16_Self.clients)
                /\ \A k \in 1 .. Len(C16_Self.clients) :
                      /\ Val(lists).items[k].i = k - 1
                      /\ Val(lists).items[k].index = C16_Self.clients[k].index
                      /\ Val(lists).items[k].flags = C16_Self.clients[k].flags
                      /\ Deref(vctp, Val(lists).items[k].conn_obj)
                            = C16_Resolved(C16_Self.clients[k])

C16_Witness ==
    /\ lastOp = "clientsEnumerate"
    /\ Val(lists).err = "none"
    /\ Len(Val(lists).items) = 2
    /\ Val(lists).items[2].index = 1

(***************************************************************************)
(* C17.  Classification terminates: getClientConnectorsByType returns for  *)
(* every table and every starting entry, also when the client references   *)
(* form a cycle, instead of recursing until the interpreter gives up; and  *)
(* when every client index is below the index of the record that lists it, *)
(* the calls nest no deeper than the index of the starting entry allows.   *)
(***************************************************************************)
C17_IndicesDecrease(tbl) ==
    \A n \in 1 .. Len(tbl.content) :
        \A k \in 1 .. Len(tbl.content[n].clients) :
            \/ tbl.content[n].clients[k].index = -1
            \/ tbl.content[n].clients[k].index < n - 1

C17_ClassificationTerminates ==
    lastOp = "getClientConnectorsByType"
        => /\ Val(lists).err # "RecursionError"
           /\ (vctp.present /\ C17_IndicesDecrease(vctp))
                 => getClientConnectorsByType(vctp, Ref(Val(lists).start, <<>>), vi,
                                              Val(lists).start + 1).err # "RecursionError"

(***************************************************************************)
(* C18.  Label recovery scan.  For a record with the HasLabel bit, decoded *)
(* for the first time, the label is what the scan of the claim finds in    *)
(* the bytes after the body: the zero bytes at the end stripped, the start *)
(* positions i from max(0, len - 256) on in ascending order, the first i   *)
(* accepted whose byte is len - i - 1 and whose following bytes are all    *)
(* printable ASCII (0x20 to 0x7E) or CR or LF; the label is the bytes      *)
(* after i, or the empty string when no position is accepted.  Stated for  *)
(* the classes whose body has a fixed length: none for Void, Bool,         *)
(* NumberPtr and the generic class, one byte for Number.                   *)
(***************************************************************************)
C18_Printable(bt) == bt \in {13, 10} \/ (bt >= 32 /\ bt <= 126)

C18_Accepted(whole_data) ==
    { i \in Max(Len(whole_data) - 256, 0) .. (Len(whole_data) - 1) :
        /\ whole_data[i + 1] = Len(whole_data) - i - 1
        /\ \A j \in (i + 2) .. Len(whole_data) : C18_Printable(whole_data[j]) }

C18_Label(whole_data) ==
    IF C18_Accepted(whole_data) = {} THEN <<>>
    ELSE SubSeq(whole_data,
                (CHOOSE i \in C18_Accepted(whole_data) :
                    \A k \in C18_Accepted(whole_data) : i <= k) + 2,
                Len(whole_data))

C18_BodyLen(o) == IF o.cls = "Number" THEN 1 ELSE 0

C18_AfterBody(o) == Rstrip0(SubSeq(getData(o), 5 + C18_BodyLen(o), Len(getData(o))))

C18_LabelScan ==
    (/\ FreshlyDecoded
     /\ HasLabelBit(obj.oflags)
     /\ obj.cls \in {"Void", "Bool", "NumberPtr", "Generic", "Number"})
        => obj.label = Some(C18_Label(C18_AfterBody(obj)))

(***************************************************************************)
(* C19.  Classification order.  C19_Direct is the set of the direct        *)
(* clients of the starting record.  The claim: in each list the direct     *)
(* clients come before the clients found inside a client.  What the code   *)
(* does: each list is in the order of the depth-first walk, a client       *)
(* first, then the clients found inside it, then the next client.          *)
(***************************************************************************)
C19_Start == Ref(Val(lists).start, <<>>)

C19_Direct ==
    { C6_ClientRef(C19_Start, Deref(vctp, C19_Start), k) :
        k \in 1 .. Len(Deref(vctp, C19_Start).clients) }

C19_DirectBeforeNested(list) ==
    \A p, q \in 1 .. Len(list) :
        (p < q /\ list[q] \in C19_Direct) => list[p] \in C19_Direct

C19_DirectClientsFirst ==
    (lastOp = "getClientConnectorsByType" /\ Val(lists).err = "none")
        => \A name \in DOMAIN Val(lists).out : C19_DirectBeforeNested(Val(lists).out[name])

RECURSIVE C19_Walk(_, _, _, _)
C19_Walk(tbl, ref, k, fuel) ==
    IF fuel = 0 \/ k > Len(Deref(tbl, ref).clients) THEN <<>>
    ELSE <<C6_ClientRef(ref, Deref(tbl, ref), k)>>
            \o C19_Walk(tbl, C6_ClientRef(ref, Deref(tbl, ref), k), 1, fuel - 1)
            \o C19_Walk(tbl, ref, k + 1, fuel)

C19_InList(name, ref) == C6_ListOf(Deref(vctp, ref)) = name

C19_DepthFirstOrder ==
    (lastOp = "getClientConnectorsByType" /\ Val(lists).err = "none")
        => \A name \in DOMAIN Val(lists).out :
              Val(lists).out[name]
                = SelectSeq(C19_Walk(vctp, C19_Start, 1, MaxDepth),
                            LAMBDA ref : C19_InList(name, ref))

C19_Witness ==
    /\ lastOp = "getClientConnectorsByType"
    /\ Val(lists).err = "none"
    /\ Len(Val(lists).out.number) = 2
    /\ Val(lists).out.number[1] \notin C19_Direct
    /\ Val(lists).out.number[2] \in C19_Direct

(***************************************************************************)
(* C20.  Dirty-flag lifecycle: raw_data_updated is set by every operation  *)
(* that replaces the raw bytes and is clear after the next parseData that  *)
(* completes; parsed_data_updated is clear after every updateData that     *)
(* completes; and after a decode followed by an encode both flags are      *)
(* clear, so that needParseData of the generic class is FALSE.             *)
(***************************************************************************)
C20_DirtyFlagLifecycle ==
    /\ lastOp \in {"initWithRSRC", "setData"} => obj.raw_data_updated
    /\ (lastOp = "parseData" /\ obj.err = "none") => ~obj.raw_data_updated
    /\ (lastOp = "updateData" /\ obj.err = "none") => ~obj.parsed_data_updated
    /\ (lastOp = "updateData" /\ obj.err = "none" /\ trk.stage = "reencoded")
          => /\ ~obj.raw_data_updated
             /\ ~obj.parsed_data_updated
             /\ obj.cls = "Generic" => ~needParseData(obj)

(***************************************************************************)
(* C21.  Main category defined and consistent with dispatch: for every tag *)
(* in 0..255 mainType() of the record newConnectorObject built returns,    *)
(* without raising, Void for tag 0x00 and else the category tag >> 4; the  *)
(* class built is the one registered under that category (or under the     *)
(* exact tag); isNumber, isPath and isString are defined for the record,   *)
(* also for the generic records of tags 0x90 to 0xEF.                      *)
(***************************************************************************)
C21_CategoryOf(t) == IF t = 0 THEN MT_Void ELSE t \div 16

C21_Registered(m) ==
    IF (m + 1) \in DOMAIN C13_Category THEN C13_Category[m + 1] ELSE "Generic"

C21_MainCategoryDefined ==
    lastOp = "newConnectorObject"
        => /\ mainType(obj).err = "none"
           /\ mainType(obj).v = C21_CategoryOf(obj.otype)
           /\ obj.otype \notin DOMAIN C13_ExactTag
                => obj.cls = C21_Registered(mainType(obj).v)
           /\ isNumber(obj).err = "none"
           /\ isPath(obj) \in BOOLEAN
           /\ isString(obj) \in BOOLEAN

(***************************************************************************)
(* C22.  Embedded-record invariant: in every decoded record a client has   *)
(* a nested record exactly when its index is -1; the nested record has     *)
(* index -1, the class, tag and flags of the header found where the nested *)
(* record starts in the parent's bytes, and holds exactly the bytes its    *)
(* own length header gives; it is no entry of the shared table.  A decoded *)
(* TypeDef has one client, nested, with flags 0; the clients of the other  *)
(* classes have an index in 0..65535.                                      *)
(***************************************************************************)
RECURSIVE C22_LabelBytes(_)
C22_LabelBytes(labels) ==
    IF labels = <<>> THEN 0
    ELSE 1 + Len(Head(labels)) + C22_LabelBytes(Tail(labels))

\* Where the nested record starts: after the header, the flag word, the
\* label count and the labels.
C22_NestedPos(o) == 4 + 4 + 4 + C22_LabelBytes(o.labels)

C22_NestedWellFormed(parent, n) ==
    LET raw == getData(parent)
        p == C22_NestedPos(parent)
        len == ReadInt(raw, p, 2)
    IN  /\ n.index = -1
        /\ n.oflags = ReadInt(raw, p + 2, 1)
        /\ n.otype = ReadInt(raw, p + 3, 1)
        /\ n.cls = C13_Variant(n.otype)
        /\ n.size = Some(len)
        /\ ~IsNone(n.raw_data)
        /\ Len(Val(n.raw_data)) = len
        /\ Val(n.raw_data) = SubSeq(raw, p + 1, p + Len(Val(n.raw_data)))
        /\ \A i \in DOMAIN vctp.content : vctp.content[i] # n

C22_EmbeddedRecords ==
    DecodeCompleted
        => /\ \A i \in DOMAIN obj.clients :
                /\ ~IsNone(obj.clients[i].nested) <=> obj.clients[i].index = -1
                /\ ~IsNone(obj.clients[i].nested)
                      => C22_NestedWellFormed(obj, Val(obj.clients[i].nested))
           /\ obj.cls = "TypeDef"
                => /\ Len(obj.clients) = 1
                   /\ obj.clients[1].index = -1
                   /\ obj.clients[1].flags = 0
           /\ obj.cls # "TypeDef"
                => \A i \in DOMAIN obj.clients : obj.clients[i].index \in 0 .. 65535

(***************************************************************************)
(* C23.  Re-decode after a raw change: when a record that was decoded gets *)
(* new raw bytes through setData, the next parseData() decodes them: the   *)
(* decoded fields (prop1, flag word, cluster format, clients, reference    *)
(* type, values, dimensions, labels, label) are then those a decode of the *)
(* new bytes alone gives, not those of the old bytes.                      *)
(***************************************************************************)
C23_Fields(o) ==
    <<o.prop1, o.flag1, o.clusterFmt, o.clients, o.reftype, o.values, o.dimensions,
      o.labels, o.label>>

C23_Alone == parseData(parseRSRCConnector(getData(obj), obj.index), vi)

C23_Redecode ==
    (lastOp = "parseData" /\ trk.stage = "redecoded" /\ obj.err = "none"
        /\ C23_Alone.err = "none")
        => C23_Fields(obj) = C23_Fields(C23_Alone)

(***************************************************************************)
(* C24.  Decoding is idempotent: when parseData() has succeeded on the raw *)
(* bytes of a record and is called again with the bytes unchanged, the     *)
(* call completes without error and leaves the record as it was: decoded   *)
(* fields, label, flags and raw bytes; also for the classes whose          *)
(* needParseData() stays true after a decode and for records with the      *)
(* HasLabel bit set and nothing, or zeros only, after the body.            *)
(***************************************************************************)
C24_SecondCall ==
    /\ lastOp = "parseData"
    /\ trk.stage = "decoded"
    /\ ~prev.raw_data_updated
    /\ prev.raw_data = trk.bytes

C24_DecodeIdempotent == C24_SecondCall => (obj.err = "none" /\ obj = prev)

====
